---- MODULE Spec2Model ----
(***************************************************************************)
(* Model of frontend/static/js/google_places.js: the place_changed         *)
(* listener installed by initializeGooglePlaces, with its seenPlaces set,  *)
(* and the two pure helpers extractCity and extractCountry.                *)
(*                                                                         *)
(* JavaScript values are modelled as follows.                              *)
(*   - an optional property is a record with a `defined` flag; the other   *)
(*     fields hold a fixed filler when the property is undefined;          *)
(*   - a coordinate is an integer number of 1/10000 degrees, so that       *)
(*     48.8584 is 488584 and 1.0 is 10000; NumberToString gives the text   *)
(*     JavaScript's Number-to-string conversion gives for such a number;   *)
(*   - an array is a sequence.                                             *)
(***************************************************************************)
EXTENDS Integers, Sequences, FiniteSets, Bags, TLC

VARIABLES
    place,        \* what autocomplete.getPlace() returns (the widget's selection)
    seenPlaces,   \* the Set created at line 8
    submitted,    \* bag of identifiers: calls of sendPlaceToBackend so far
    failed,       \* identifiers whose backend submission failed
    lastPayload,  \* argument of the listener's last sendPlaceToBackend call
    lastEffects,  \* what the last listener run did, in program order
    prevThrew,    \* whether the listener run before the last one threw
    events,       \* number of place_changed events delivered
    called,       \* SpecExtract: which helper has been applied to place
    ret           \* SpecExtract: what it returned

vars == <<place, seenPlaces, submitted, failed, lastPayload, lastEffects,
          prevThrew, events, called, ret>>

-----------------------------------------------------------------------------
(* Bounds *)

MaxEvents == 3

MaxComponents == 3

-----------------------------------------------------------------------------
(* Place records *)

Undefined == [defined |-> FALSE, value |-> ""]

Str(s) == [defined |-> TRUE, value |-> s]

NoGeometry == [defined |-> FALSE, lat |-> 0, lng |-> 0]

LatLng(a, b) == [defined |-> TRUE, lat |-> a, lng |-> b]

NoComponents == [defined |-> FALSE, list |-> <<>>]

Components(s) == [defined |-> TRUE, list |-> s]

Component(nm, tys) == [long_name |-> nm, types |-> tys]

Paris == Component("Paris", <<"locality", "political">>)

IleDeFrance == Component("Ile-de-France", <<"administrative_area_level_1", "political">>)

France == Component("France", <<"country", "political">>)

Monaco == Component("Monaco", <<"country", "locality">>)

ChampDeMars == Component("Champ de Mars", <<"route">>)

Untagged == Component("5", <<>>)

Place(pid, nm, geo, comps) ==
    [place_id |-> pid, name |-> nm, geometry |-> geo, address_components |-> comps]

\* getPlace() before any selection: nothing is set.
NoPlace == Place(Undefined, "", NoGeometry, NoComponents)

EiffelTower ==
    Place(Str("p1"), "Eiffel Tower", LatLng(488584, 22945),
          Components(<<Paris, France>>))

\* The place records the widget delivers to the listener.
PlaceIds == {Undefined, Str(""), Str("p1"), Str("X_1_2")}

Names == {"X", "Eiffel Tower"}

Geometries == {NoGeometry, LatLng(10000, 20000), LatLng(488584, 22945)}

ComponentLists == {NoComponents, Components(<<Paris, France>>)}

Places ==
    {Place(pid, nm, geo, comps) :
        pid \in PlaceIds, nm \in Names, geo \in Geometries, comps \in ComponentLists}

-----------------------------------------------------------------------------
(* Number-to-string conversion of the template literal *)

RECURSIVE FracDigits(_, _)
FracDigits(f, w) ==
    IF w = 0 THEN "" ELSE FracDigits(f \div 10, w - 1) \o ToString(f % 10)

RECURSIVE StripFrac(_, _)
StripFrac(f, w) ==
    IF f % 10 = 0 THEN StripFrac(f \div 10, w - 1) ELSE FracDigits(f, w)

\* Variant: every coordinate printed with four decimals, as toFixed(4) would.
NumberToString_fixed(x) ==
    LET a == IF x < 0 THEN 0 - x ELSE x
    IN  (IF x < 0 THEN "-" ELSE "")
        \o ToString(a \div 10000) \o "." \o FracDigits(a % 10000, 4)

NumberToString(x) ==
    LET a == IF x < 0 THEN 0 - x ELSE x
        whole == a \div 10000
        frac == a % 10000
    IN  (IF x < 0 THEN "-" ELSE "")
        \o ToString(whole)
        \o (IF frac = 0 THEN "" ELSE "." \o StripFrac(frac, 4))

-----------------------------------------------------------------------------
(* extractCity, extractCountry *)

includes(arr, x) == \E i \in 1..Len(arr) : arr[i] = x

\* Variant: the loop without its break, so the last match wins.
RECURSIVE CityLoop_noBreak(_, _)
CityLoop_noBreak(list, city) ==
    IF list = <<>> THEN city
    ELSE IF \/ includes(Head(list).types, "locality")
            \/ includes(Head(list).types, "administrative_area_level_1")
         THEN CityLoop_noBreak(Tail(list), Head(list).long_name)
         ELSE CityLoop_noBreak(Tail(list), city)

\* for (const component of ...) { if (...) { city = component.long_name; break; } }
RECURSIVE CityLoop(_, _)
CityLoop(list, city) ==
    IF list = <<>> THEN city
    ELSE IF \/ includes(Head(list).types, "locality")
            \/ includes(Head(list).types, "administrative_area_level_1")
         THEN Head(list).long_name
         ELSE CityLoop(Tail(list), city)

extractCity(p) ==
    IF p.address_components.defined
    THEN CityLoop(p.address_components.list, "")
    ELSE ""

\* Variant: the loop without its break, so the last match wins.
RECURSIVE CountryLoop_noBreak(_, _)
CountryLoop_noBreak(list, country) ==
    IF list = <<>> THEN country
    ELSE IF includes(Head(list).types, "country")
         THEN CountryLoop_noBreak(Tail(list), Head(list).long_name)
         ELSE CountryLoop_noBreak(Tail(list), country)

RECURSIVE CountryLoop(_, _)
CountryLoop(list, country) ==
    IF list = <<>> THEN country
    ELSE IF includes(Head(list).types, "country")
         THEN Head(list).long_name
         ELSE CountryLoop(Tail(list), country)

extractCountry(p) ==
    IF p.address_components.defined
    THEN CountryLoop(p.address_components.list, "")
    ELSE ""

-----------------------------------------------------------------------------
(* The place_changed listener *)

Truthy(s) == s.defined /\ s.value # ""

Returned(v) == [threw |-> FALSE, value |-> v]

\* place.geometry.location on a record without geometry raises a TypeError.
TypeError(filler) == [threw |-> TRUE, value |-> filler]

\* Variant: the fallback key is built first, so geometry is always read.
placeIdentifier_eagerKey(p) ==
    IF ~p.geometry.defined THEN TypeError("")
    ELSE IF Truthy(p.place_id) THEN Returned(p.place_id.value)
    ELSE Returned(p.name \o "_" \o NumberToString(p.geometry.lat)
                         \o "_" \o NumberToString(p.geometry.lng))

\* Variant: missing geometry is guarded in the key only, which becomes the name.
placeIdentifier_guardedKey(p) ==
    IF Truthy(p.place_id) THEN Returned(p.place_id.value)
    ELSE IF ~p.geometry.defined THEN Returned(p.name)
    ELSE Returned(p.name \o "_" \o NumberToString(p.geometry.lat)
                         \o "_" \o NumberToString(p.geometry.lng))

placeIdentifier(p) ==
    IF Truthy(p.place_id) THEN Returned(p.place_id.value)
    ELSE IF ~p.geometry.defined THEN TypeError("")
    ELSE Returned(p.name \o "_" \o NumberToString(p.geometry.lat)
                         \o "_" \o NumberToString(p.geometry.lng))

\* Variant: the set is asked for a key it never holds.
has_wrongKey(set, id) == FALSE

has(set, id) == id \in set

\* Variant: the identifier is not recorded.
add_skipped(set, id) == set

\* Variant: the set is replaced by one holding the new identifier only.
add_reset(set, id) == {id}

add(set, id) == set \cup {id}

Payload(nm, city, country, coords, pid) ==
    [destination_name |-> nm, city |-> city, country |-> country,
     coordinates |-> coords, place_id |-> pid]

NoPayload == Payload("", "", "", <<0, 0>>, Undefined)

\* Variant: the coordinates in [lng, lat] order.
placeData_lngLat(p) ==
    IF ~p.geometry.defined THEN TypeError(NoPayload)
    ELSE Returned(Payload(p.name, extractCity(p), extractCountry(p),
                          <<p.geometry.lng, p.geometry.lat>>, p.place_id))

placeData(p) ==
    IF ~p.geometry.defined THEN TypeError(NoPayload)
    ELSE Returned(Payload(p.name, extractCity(p), extractCountry(p),
                          <<p.geometry.lat, p.geometry.lng>>, p.place_id))

Threw == lastEffects # <<>> /\ lastEffects[Len(lastEffects)] = "throw"

ExtractIdle == called' = called /\ ret' = ret

\* One place_changed event: the widget's selection becomes p and the listener
\* runs.  ok says whether the backend submission, if one is made, succeeds.
place_changed(p, ok) ==
    /\ events < MaxEvents
    /\ events' = events + 1
    /\ place' = p
    /\ prevThrew' = Threw
    /\ ExtractIdle
    /\ LET id == placeIdentifier(p) IN
       IF id.threw
       THEN /\ lastEffects' = <<"throw">>
            /\ UNCHANGED <<seenPlaces, submitted, failed, lastPayload>>
       ELSE IF has(seenPlaces, id.value)
       THEN /\ lastEffects' = <<>>
            /\ UNCHANGED <<seenPlaces, submitted, failed, lastPayload>>
       ELSE /\ seenPlaces' = add(seenPlaces, id.value)
            /\ LET data == placeData(p) IN
               IF data.threw
               THEN /\ lastEffects' = <<"add", "throw">>
                    /\ UNCHANGED <<submitted, failed, lastPayload>>
               ELSE /\ lastEffects' = <<"add", "send">>
                    /\ lastPayload' = data.value
                    /\ submitted' = submitted (+) SetToBag({id.value})
                    /\ failed' = IF ok THEN failed ELSE failed \cup {id.value}

\* initializeGooglePlaces has run: the listener is installed, nothing selected.
Init ==
    /\ place = NoPlace
    /\ seenPlaces = {}
    /\ submitted = EmptyBag
    /\ failed = {}
    /\ lastPayload = NoPayload
    /\ lastEffects = <<>>
    /\ prevThrew = FALSE
    /\ events = 0
    /\ called = "none"
    /\ ret = ""

Next == \E p \in Places, ok \in BOOLEAN : place_changed(p, ok)

Spec == Init /\ [][Next]_vars

-----------------------------------------------------------------------------
(* The helpers applied to arbitrary address-component sequences *)

ComponentPool == {Paris, IleDeFrance, France, Monaco, ChampDeMars, Untagged}

RECURSIVE SeqsUpTo(_, _)
SeqsUpTo(S, k) ==
    IF k = 0 THEN {<<>>}
    ELSE LET shorter == SeqsUpTo(S, k - 1)
         IN  shorter \cup {Append(s, x) : s \in shorter, x \in S}

ExtractPlaces ==
    {Place(Undefined, "X", NoGeometry, NoComponents)}
    \cup {Place(Undefined, "X", NoGeometry, Components(s)) :
            s \in SeqsUpTo(ComponentPool, MaxComponents)}

HandlerIdle ==
    UNCHANGED <<place, seenPlaces, submitted, failed, lastPayload, lastEffects,
                prevThrew, events>>

CallExtractCity ==
    /\ called' = "extractCity"
    /\ ret' = extractCity(place)
    /\ HandlerIdle

CallExtractCountry ==
    /\ called' = "extractCountry"
    /\ ret' = extractCountry(place)
    /\ HandlerIdle

InitExtract ==
    /\ place \in ExtractPlaces
    /\ seenPlaces = {}
    /\ submitted = EmptyBag
    /\ failed = {}
    /\ lastPayload = NoPayload
    /\ lastEffects = <<>>
    /\ prevThrew = FALSE
    /\ events = 0
    /\ called = "none"
    /\ ret = ""

NextExtract == CallExtractCity \/ CallExtractCountry

SpecExtract == InitExtract /\ [][NextExtract]_vars

-----------------------------------------------------------------------------
(* What the specification calls a place's identifier, stated on its own *)

StableId(p) == p.place_id.defined /\ p.place_id.value # ""

FallbackKey(p) ==
    p.name \o "_" \o NumberToString(p.geometry.lat)
           \o "_" \o NumberToString(p.geometry.lng)

Identifier(p) == IF StableId(p) THEN p.place_id.value ELSE FallbackKey(p)

\* The identifier exists: a stable id, or coordinates to build the key from.
Identifiable(p) == StableId(p) \/ p.geometry.defined

Calls(id) == CopiesIn(id, submitted)

Sent == lastEffects = <<"add", "send">>

-----------------------------------------------------------------------------
(* Claims about the listener, checked under Spec *)

\* C1: for every place identifier, sendPlaceToBackend has been called at most
\* once for a place with that identifier, whatever events were delivered.
C1_AtMostOneSubmission == \A id \in BagToSet(submitted) : Calls(id) <= 1

\* A second selection of an already submitted place has just been ignored.
C1_Witness ==
    /\ events >= 2
    /\ lastEffects = <<>>
    /\ Identifiable(place)
    /\ Calls(Identifier(place)) = 1

\* C2: an event for a place whose identifier is already in the seen-set is a
\* no-op: no call of sendPlaceToBackend, no error, the seen-set unchanged.
C2_DuplicateIsNoOp ==
    [][(Identifiable(place') /\ Identifier(place') \in seenPlaces)
         => /\ lastEffects' = <<>>
            /\ seenPlaces' = seenPlaces
            /\ submitted' = submitted
            /\ failed' = failed
            /\ lastPayload' = lastPayload]_vars

\* A seen stable id selected again on a record without geometry: ignored quietly.
C2_Witness ==
    /\ events >= 2
    /\ lastEffects = <<>>
    /\ StableId(place)
    /\ ~place.geometry.defined
    /\ place.place_id.value \in seenPlaces

\* C3: an event for a place with coordinates whose identifier is not in the
\* seen-set inserts the identifier and calls sendPlaceToBackend exactly once,
\* with {destination_name: name, city: extractCity, country: extractCountry,
\* coordinates: [lat, lng], place_id: place_id}; the Eiffel Tower record gives
\* {"Eiffel Tower", "Paris", "France", [48.8584, 2.2945], "p1"}.
C3_NewPlaceSubmitted ==
    [][(place'.geometry.defined /\ Identifier(place') \notin seenPlaces)
         => /\ seenPlaces' = seenPlaces \cup {Identifier(place')}
            /\ lastEffects' = <<"add", "send">>
            /\ submitted' = submitted (+) SetToBag({Identifier(place')})
            /\ lastPayload'.destination_name = place'.name
            /\ lastPayload'.city = extractCity(place')
            /\ lastPayload'.country = extractCountry(place')
            /\ lastPayload'.coordinates = <<place'.geometry.lat, place'.geometry.lng>>
            /\ lastPayload'.place_id = place'.place_id
            /\ (place' = EiffelTower =>
                  lastPayload' = [destination_name |-> "Eiffel Tower",
                                  city |-> "Paris",
                                  country |-> "France",
                                  coordinates |-> <<488584, 22945>>,
                                  place_id |-> [defined |-> TRUE, value |-> "p1"]])]_vars

\* The Eiffel Tower record has just been submitted.
C3_Witness ==
    /\ place = EiffelTower
    /\ Sent
    /\ lastPayload.city = "Paris"
    /\ lastPayload.coordinates = <<488584, 22945>>
    /\ Calls("p1") = 1

\* C4: the identifier is the stable place_id when the record carries one, else
\* name_lat_lng ("X", 1.0, 2.0 gives "X_1_2"); so an id-less record selected
\* again with the same name, lat and lng is a duplicate and is not submitted.
C4_IdentifierDerivation ==
    [][/\ (StableId(place') /\ lastEffects' # <<>>)
            => seenPlaces' = seenPlaces \cup {place'.place_id.value}
       /\ (~StableId(place') /\ place'.geometry.defined /\ lastEffects' # <<>>)
            => seenPlaces' = seenPlaces \cup {FallbackKey(place')}
       /\ (/\ ~StableId(place')
           /\ place'.name = "X"
           /\ place'.geometry = [defined |-> TRUE, lat |-> 10000, lng |-> 20000])
            => "X_1_2" \in seenPlaces'
       /\ (/\ ~StableId(place')
           /\ place'.name = "Eiffel Tower"
           /\ place'.geometry = [defined |-> TRUE, lat |-> 488584, lng |-> 22945])
            => "Eiffel Tower_48.8584_2.2945" \in seenPlaces'
       /\ (/\ ~StableId(place) /\ place.geometry.defined /\ events >= 1
           /\ ~StableId(place')
           /\ place'.name = place.name
           /\ place'.geometry = place.geometry)
            => (lastEffects' = <<>> /\ submitted' = submitted)]_vars

\* The id-less record X at (1.0, 2.0), selected twice: submitted once as "X_1_2".
C4_Witness ==
    /\ events >= 2
    /\ ~StableId(place)
    /\ place.name = "X"
    /\ place.geometry = LatLng(10000, 20000)
    /\ lastEffects = <<>>
    /\ Calls("X_1_2") = 1
    /\ seenPlaces = {"X_1_2"}

\* C7: the seen-set is empty when the listener is installed and no event,
\* new, duplicate or failing, removes an identifier from it.
C7_SeenSetMonotonic ==
    /\ seenPlaces = {}
    /\ [][seenPlaces \subseteq seenPlaces']_vars

\* A failing event has been handled with two identifiers already in the set.
C7_Witness == lastEffects = <<"throw">> /\ Cardinality(seenPlaces) >= 2

\* C8: no retry: the identifier is inserted before sendPlaceToBackend is
\* called and stays after a failed submission, so no later event for it
\* produces another submission.
C8_NoRetry ==
    [][/\ \A id \in failed : id \in seenPlaces' /\ Calls(id)' = Calls(id)
       /\ failed' \subseteq seenPlaces'
       /\ \A i \in DOMAIN lastEffects' :
            lastEffects'[i] = "send" => \E j \in 1..(i - 1) : lastEffects'[j] = "add"]_vars

\* A place whose submission failed was selected again and nothing was sent.
C8_Witness ==
    /\ lastEffects = <<>>
    /\ Identifiable(place)
    /\ Identifier(place) \in failed
    /\ Calls(Identifier(place)) = 1

\* C9: the seen-set equals the set of identifiers for which sendPlaceToBackend
\* has been called, also after events for records that lack geometry.
C9_SeenEqualsSubmitted == seenPlaces = BagToSet(submitted)

\* C10: an event for a record with neither geometry nor a stable place_id
\* fails while the fallback key is built, before the dedup check: the seen-set
\* is unchanged, nothing is sent, and later events are handled as usual.
C10_MissingGeometryFails ==
    [][/\ (~StableId(place') /\ ~place'.geometry.defined)
            => /\ lastEffects' = <<"throw">>
               /\ seenPlaces' = seenPlaces
               /\ submitted' = submitted
       /\ (/\ lastEffects = <<"throw">>
           /\ place'.geometry.defined
           /\ Identifier(place') \notin seenPlaces)
            => /\ lastEffects' = <<"add", "send">>
               /\ seenPlaces' = seenPlaces \cup {Identifier(place')}
               /\ CopiesIn(Identifier(place'), submitted') = 1
       /\ (/\ lastEffects = <<"throw">>
           /\ Identifiable(place')
           /\ Identifier(place') \in seenPlaces)
            => (lastEffects' = <<>> /\ seenPlaces' = seenPlaces)]_vars

\* The first event failed on the fallback key; the second was submitted.
C10_Witness ==
    /\ events = 2
    /\ prevThrew
    /\ Sent
    /\ Cardinality(seenPlaces) = 1
    /\ seenPlaces = BagToSet(submitted)

-----------------------------------------------------------------------------
(* Claims about the helpers, checked under SpecExtract *)

ComponentsOf(p) ==
    IF p.address_components.defined THEN p.address_components.list ELSE <<>>

Tagged(c, t) == t \in {c.types[k] : k \in DOMAIN c.types}

Least(S) == CHOOSE i \in S : \A j \in S : i <= j

CityIndexes(list) ==
    {i \in DOMAIN list :
        Tagged(list[i], "locality") \/ Tagged(list[i], "administrative_area_level_1")}

CountryIndexes(list) == {i \in DOMAIN list : Tagged(list[i], "country")}

\* C5: extractCity returns the long_name of the first component, in array
\* order, tagged "locality" or "administrative_area_level_1", and "" when
\* there are no components or none matches; a "locality" component wins over
\* any later "administrative_area_level_1" component.
C5_ExtractCityFirstMatch ==
    called = "extractCity" =>
        LET list == ComponentsOf(place)
            M == CityIndexes(list)
        IN  /\ (M = {} => ret = "")
            /\ (M # {} => ret = list[Least(M)].long_name)
            /\ \A i \in DOMAIN list :
                 (/\ Tagged(list[i], "locality")
                  /\ \A j \in 1..(i - 1) :
                       /\ ~Tagged(list[j], "locality")
                       /\ ~Tagged(list[j], "administrative_area_level_1"))
                 => ret = list[i].long_name

\* A locality followed by an administrative area: the locality is returned.
C5_Witness ==
    /\ called = "extractCity"
    /\ ComponentsOf(place) = <<ChampDeMars, Paris, IleDeFrance>>
    /\ ret = "Paris"

\* C6: extractCountry returns the long_name of the first component, in array
\* order, tagged "country", and "" when there are no components or none is
\* tagged "country".
C6_ExtractCountryFirstMatch ==
    called = "extractCountry" =>
        LET list == ComponentsOf(place)
            M == CountryIndexes(list)
        IN  /\ (M = {} => ret = "")
            /\ (M # {} => ret = list[Least(M)].long_name)
            /\ (Len(list) = 0 => ret = "")

\* Two components tagged "country": the first one is returned.
C6_Witness ==
    /\ called = "extractCountry"
    /\ ComponentsOf(place) = <<Paris, France, Monaco>>
    /\ ret = "France"

====
